---- MODULE Spec2Model ----
(***************************************************************************)
(* Model of docs/conf.py of gpio_manager: the Sphinx configuration module. *)
(* Loading the module executes its body top to bottom: two imports, one    *)
(* insertion into sys.path and eleven module-level assignments.  A process *)
(* (an interpreter) has a working directory, a module search path and one  *)
(* namespace per load of conf.py.                                          *)
(***************************************************************************)
EXTENDS Naturals, Sequences, FiniteSets

VARIABLES
  cwd,       \* cwd[p]: the working directory of process p, a sequence of components
  sys_path,  \* sys_path[p]: sys.path of process p, a sequence of paths
  path0,     \* path0[p][k]: sys.path as it was when load k of process p started
  ns,        \* ns[p][k]: the module namespace of load k of process p (name -> value)
  writes,    \* writes[p][k]: how often load k has bound each name (name -> count)
  pc         \* pc[p]: the statement process p executes next, or "done" / "error"

vars == <<cwd, sys_path, path0, ns, writes, pc>>

(***************************************************************************)
(* Bounds and the environment.                                             *)
(***************************************************************************)
MaxPathLen == 2     \* longest initial sys.path
MaxLoads == 2       \* loads of conf.py per process

\* The directories that exist: a project checkout with its docs directory.
Dirs == { <<>>, <<"home">>, <<"home", "proj">>, <<"home", "proj", "docs">> }

\* What an initial sys.path may hold (an entry need not exist).
PathEntries == { <<"home">>, <<"usr", "lib">> }

RECURSIVE SeqsUpTo(_, _)
SeqsUpTo(S, n) ==
  IF n = 0 THEN { <<>> }
  ELSE LET shorter == SeqsUpTo(S, n - 1)
       IN  shorter \cup { Append(s, x) : s \in { t \in shorter : Len(t) = n - 1 }, x \in S }

(***************************************************************************)
(* Python values: str, list of str, dict of str to bool, module.           *)
(***************************************************************************)
EmptyMap == [k \in {} |-> FALSE]

StrVal(s) == [kind |-> "str", str |-> s, list |-> <<>>, map |-> EmptyMap]
ListVal(l) == [kind |-> "list", str |-> "", list |-> l, map |-> EmptyMap]
DictVal(m) == [kind |-> "dict", str |-> "", list |-> <<>>, map |-> m]
ModuleVal(name) == [kind |-> "module", str |-> name, list |-> <<>>, map |-> EmptyMap]

EmptyNs == [n \in {} |-> StrVal("")]
NoWrites == [n \in {} |-> 0]

\* name = value at module level: binds (or rebinds) name in the namespace.
Bind(n, name, v) == [x \in DOMAIN n \cup {name} |-> IF x = name THEN v ELSE n[x]]

Count(w, name) == IF name \in DOMAIN w THEN w[name] ELSE 0
Counted(w, name) == [x \in DOMAIN w \cup {name} |-> IF x = name THEN Count(w, name) + 1 ELSE w[x]]

Cur(p) == Len(ns[p])

\* One executed binding statement of the current load of p: name = v, then go to next.
Exec(p, at, name, v, next) ==
  /\ pc[p] = at
  /\ ns' = [ns EXCEPT ![p][Cur(p)] = Bind(@, name, v)]
  /\ writes' = [writes EXCEPT ![p][Cur(p)] = Counted(@, name)]
  /\ pc' = [pc EXCEPT ![p] = next]
  /\ UNCHANGED <<cwd, sys_path, path0>>

(***************************************************************************)
(* os.path and list operations used by line 11.                            *)
(***************************************************************************)
\* os.path.normpath on the components of an absolute path: "." is dropped,
\* ".." removes the component before it, and at the root it is dropped.
RECURSIVE NormFrom(_, _)
NormFrom(done, rest) ==
  IF rest = <<>> THEN done
  ELSE LET c == Head(rest)
       IN  IF c = "." THEN NormFrom(done, Tail(rest))
           ELSE IF c = ".."
                THEN NormFrom(IF done = <<>> THEN <<>> ELSE SubSeq(done, 1, Len(done) - 1),
                              Tail(rest))
                ELSE NormFrom(Append(done, c), Tail(rest))

normpath(path) == NormFrom(<<>>, path)

\* os.path.abspath(rel) for a relative path: normpath(join(os.getcwd(), rel)).
abspath(dir, rel) == normpath(dir \o rel)

\* list.insert(i, x)
ListInsert(l, i, x) == SubSeq(l, 1, i) \o <<x>> \o SubSeq(l, i + 1, Len(l))

(***************************************************************************)
(* The module body, one action per statement.                              *)
(***************************************************************************)
\* line 8: import sys
ImportSys(p) == Exec(p, "import_sys", "sys", ModuleVal("sys"), "import_os")

\* line 9: import os
ImportOs(p) == Exec(p, "import_os", "os", ModuleVal("os"), "insert_path")

\* Variant of line 11: sys.path.append(os.path.abspath('..')).
InsertPathAppend(p) ==
  /\ pc[p] = "insert_path"
  /\ IF cwd[p] \in Dirs
     THEN /\ sys_path' = [sys_path EXCEPT ![p] = Append(@, abspath(cwd[p], <<"..">>))]
          /\ pc' = [pc EXCEPT ![p] = "project"]
     ELSE /\ pc' = [pc EXCEPT ![p] = "error"]
          /\ UNCHANGED sys_path
  /\ UNCHANGED <<cwd, path0, ns, writes>>

\* Variant of line 11: the entry is inserted only when sys.path does not hold it yet.
InsertPathGuarded(p) ==
  /\ pc[p] = "insert_path"
  /\ IF cwd[p] \in Dirs
     THEN LET entry == abspath(cwd[p], <<"..">>)
          IN  /\ sys_path' = [sys_path EXCEPT ![p] =
                                IF \E i \in 1..Len(@) : @[i] = entry
                                THEN @ ELSE ListInsert(@, 0, entry)]
              /\ pc' = [pc EXCEPT ![p] = "project"]
     ELSE /\ pc' = [pc EXCEPT ![p] = "error"]
          /\ UNCHANGED sys_path
  /\ UNCHANGED <<cwd, path0, ns, writes>>

\* Variant of line 11: sys.path.insert(0, sys.path.pop(sys.path.index(entry))),
\* where list.index raises ValueError for an entry the list does not hold.
InsertPathMoveToFront(p) ==
  /\ pc[p] = "insert_path"
  /\ LET entry == abspath(cwd[p], <<"..">>)
     IN  IF cwd[p] \in Dirs /\ \E i \in 1..Len(sys_path[p]) : sys_path[p][i] = entry
         THEN /\ sys_path' = [sys_path EXCEPT ![p] =
                                <<entry>> \o SelectSeq(@, LAMBDA e : e # entry)]
              /\ pc' = [pc EXCEPT ![p] = "project"]
         ELSE /\ pc' = [pc EXCEPT ![p] = "error"]
              /\ UNCHANGED sys_path
  /\ UNCHANGED <<cwd, path0, ns, writes>>

\* line 11: sys.path.insert(0, os.path.abspath('..')).  os.getcwd() raises
\* FileNotFoundError when the working directory no longer exists.
InsertPath(p) ==
  /\ pc[p] = "insert_path"
  /\ IF cwd[p] \in Dirs
     THEN /\ sys_path' = [sys_path EXCEPT ![p] = ListInsert(@, 0, abspath(cwd[p], <<"..">>))]
          /\ pc' = [pc EXCEPT ![p] = "project"]
     ELSE /\ pc' = [pc EXCEPT ![p] = "error"]
          /\ UNCHANGED sys_path
  /\ UNCHANGED <<cwd, path0, ns, writes>>

\* Variant of line 13: project = os.path.basename(os.path.abspath('..')).
AssignProjectFromDir(p) ==
  LET parent == abspath(cwd[p], <<"..">>)
  IN  Exec(p, "project", "project",
           StrVal(IF parent = <<>> THEN "" ELSE parent[Len(parent)]), "copyright")

\* line 13
AssignProject(p) == Exec(p, "project", "project", StrVal("gpio-manager"), "copyright")

\* line 14
AssignCopyright(p) ==
  Exec(p, "copyright", "copyright", StrVal("2024, Rylan Meilutis"), "author")

\* line 15
AssignAuthor(p) == Exec(p, "author", "author", StrVal("Rylan Meilutis"), "release")

\* line 16
AssignRelease(p) == Exec(p, "release", "release", StrVal("2.1.14"), "extensions")

\* lines 21-24
AssignExtensions(p) ==
  Exec(p, "extensions", "extensions", ListVal(<<"sphinx.ext.autodoc">>), "templates_path")

\* Variant of line 26: templates_path = [].
AssignTemplatesPathEmpty(p) ==
  Exec(p, "templates_path", "templates_path", ListVal(<<>>), "exclude_patterns")

\* line 26
AssignTemplatesPath(p) ==
  Exec(p, "templates_path", "templates_path", ListVal(<<"_templates">>), "exclude_patterns")

\* Variant of line 27: '_build' listed twice.
AssignExcludePatternsTwice(p) ==
  Exec(p, "exclude_patterns", "exclude_patterns",
       ListVal(<<"_build", "Thumbs.db", ".DS_Store", "_build">>), "html_theme")

\* line 27
AssignExcludePatterns(p) ==
  Exec(p, "exclude_patterns", "exclude_patterns",
       ListVal(<<"_build", "Thumbs.db", ".DS_Store">>), "html_theme")

\* line 34
AssignHtmlTheme(p) == Exec(p, "html_theme", "html_theme", StrVal("furo"), "html_theme_options")

\* Variant of lines 35-38: "sidebar_hide_name": True and one more option.
AssignHtmlThemeOptionsOther(p) ==
  Exec(p, "html_theme_options", "html_theme_options",
       DictVal([k \in {"sidebar_hide_name", "navigation_with_keys", "top_of_page_button"} |->
                  k # "top_of_page_button"]),
       "html_title")

\* lines 35-38
AssignHtmlThemeOptions(p) ==
  Exec(p, "html_theme_options", "html_theme_options",
       DictVal([k \in {"sidebar_hide_name", "navigation_with_keys"} |->
                  k = "navigation_with_keys"]),
       "html_title")

\* Variant of line 39: project = html_title = "GPIO Manager Documentation".
AssignHtmlTitleAndProject(p) ==
  /\ pc[p] = "html_title"
  /\ ns' = [ns EXCEPT ![p][Cur(p)] =
              Bind(Bind(@, "project", StrVal("GPIO Manager Documentation")),
                   "html_title", StrVal("GPIO Manager Documentation"))]
  /\ writes' = [writes EXCEPT ![p][Cur(p)] = Counted(Counted(@, "project"), "html_title")]
  /\ pc' = [pc EXCEPT ![p] = "html_static_path"]
  /\ UNCHANGED <<cwd, sys_path, path0>>

\* line 39
AssignHtmlTitle(p) ==
  Exec(p, "html_title", "html_title", StrVal("GPIO Manager Documentation"), "html_static_path")

\* Variant of line 40: the name misspelt as html_static_paths.
AssignHtmlStaticPathTypo(p) ==
  Exec(p, "html_static_path", "html_static_paths", ListVal(<<"_static">>), "done")

\* line 40, the last statement of the module
AssignHtmlStaticPath(p) ==
  Exec(p, "html_static_path", "html_static_path", ListVal(<<"_static">>), "done")

\* One statement of the load in progress.
Load(p) ==
  \/ ImportSys(p)
  \/ ImportOs(p)
  \/ InsertPath(p)
  \/ AssignProject(p)
  \/ AssignCopyright(p)
  \/ AssignAuthor(p)
  \/ AssignRelease(p)
  \/ AssignExtensions(p)
  \/ AssignTemplatesPath(p)
  \/ AssignExcludePatterns(p)
  \/ AssignHtmlTheme(p)
  \/ AssignHtmlThemeOptions(p)
  \/ AssignHtmlTitle(p)
  \/ AssignHtmlStaticPath(p)

\* The host executes the module body again in the same process: a fresh
\* namespace, the same sys.path and working directory.
Reload(p) ==
  /\ pc[p] = "done"
  /\ Cur(p) < MaxLoads
  /\ ns' = [ns EXCEPT ![p] = Append(@, EmptyNs)]
  /\ writes' = [writes EXCEPT ![p] = Append(@, NoWrites)]
  /\ path0' = [path0 EXCEPT ![p] = Append(@, sys_path[p])]
  /\ pc' = [pc EXCEPT ![p] = "import_sys"]
  /\ UNCHANGED <<cwd, sys_path>>

\* The state of the processes in P before any of them executes a statement.
InitProcs(P) ==
  /\ cwd \in [P -> Dirs]
  /\ sys_path \in [P -> SeqsUpTo(PathEntries, MaxPathLen)]
  /\ path0 = [p \in P |-> <<sys_path[p]>>]
  /\ ns = [p \in P |-> <<EmptyNs>>]
  /\ writes = [p \in P |-> <<NoWrites>>]
  /\ pc = [p \in P |-> "import_sys"]

\* One process that may load conf.py several times.
Init == InitProcs({"A"})

Next ==
  \/ \E p \in DOMAIN pc : ImportSys(p)
  \/ \E p \in DOMAIN pc : ImportOs(p)
  \/ \E p \in DOMAIN pc : InsertPath(p)
  \/ \E p \in DOMAIN pc : AssignProject(p)
  \/ \E p \in DOMAIN pc : AssignCopyright(p)
  \/ \E p \in DOMAIN pc : AssignAuthor(p)
  \/ \E p \in DOMAIN pc : AssignRelease(p)
  \/ \E p \in DOMAIN pc : AssignExtensions(p)
  \/ \E p \in DOMAIN pc : AssignTemplatesPath(p)
  \/ \E p \in DOMAIN pc : AssignExcludePatterns(p)
  \/ \E p \in DOMAIN pc : AssignHtmlTheme(p)
  \/ \E p \in DOMAIN pc : AssignHtmlThemeOptions(p)
  \/ \E p \in DOMAIN pc : AssignHtmlTitle(p)
  \/ \E p \in DOMAIN pc : AssignHtmlStaticPath(p)
  \/ \E p \in DOMAIN pc : Reload(p)

Spec == Init /\ [][Next]_vars

\* The interpreter runs a started module body to its end.
FairSpec == Spec /\ WF_vars(Load("A"))

\* Two processes, each loading conf.py once from its own environment.
PairInit == InitProcs({"A", "B"})

PairNext ==
  \/ \E p \in DOMAIN pc : ImportSys(p)
  \/ \E p \in DOMAIN pc : ImportOs(p)
  \/ \E p \in DOMAIN pc : InsertPath(p)
  \/ \E p \in DOMAIN pc : AssignProject(p)
  \/ \E p \in DOMAIN pc : AssignCopyright(p)
  \/ \E p \in DOMAIN pc : AssignAuthor(p)
  \/ \E p \in DOMAIN pc : AssignRelease(p)
  \/ \E p \in DOMAIN pc : AssignExtensions(p)
  \/ \E p \in DOMAIN pc : AssignTemplatesPath(p)
  \/ \E p \in DOMAIN pc : AssignExcludePatterns(p)
  \/ \E p \in DOMAIN pc : AssignHtmlTheme(p)
  \/ \E p \in DOMAIN pc : AssignHtmlThemeOptions(p)
  \/ \E p \in DOMAIN pc : AssignHtmlTitle(p)
  \/ \E p \in DOMAIN pc : AssignHtmlStaticPath(p)

PairSpec == PairInit /\ [][PairNext]_vars

(***************************************************************************)
(* What the claims speak of.                                               *)
(***************************************************************************)
\* The eleven configuration fields of the external interface.
StringFields == {"project", "copyright", "author", "release", "html_theme", "html_title"}
ListFields == {"extensions", "templates_path", "exclude_patterns", "html_static_path"}
DictFields == {"html_theme_options"}
FieldNames == StringFields \cup ListFields \cup DictFields

\* The configuration record of a namespace: what it binds, imported modules aside.
ConfNames(n) == {f \in DOMAIN n : n[f].kind # "module"}
Conf(n) == [f \in ConfNames(n) |-> n[f]]

\* The loads of p that have run to their end.
Completed(p) == {k \in 1..Cur(p) : k < Cur(p) \/ pc[p] = "done"}

\* sys.path of p as load k left it.
PathAfter(p, k) == IF k < Cur(p) THEN path0[p][k + 1] ELSE sys_path[p]

\* The parent of a directory; the root is its own parent.
ParentOf(d) == IF d = <<>> THEN <<>> ELSE SubSeq(d, 1, Len(d) - 1)

NoDuplicates(l) == \A i, j \in 1..Len(l) : i # j => l[i] # l[j]

BeforeInsert == {"import_sys", "import_os", "insert_path"}

\* C1: after a load every declared field holds a non-empty value: the string
\* fields non-empty strings, the list fields lists with at least one element,
\* html_theme_options a mapping with at least one key.
FieldsNonEmpty ==
  \A p \in DOMAIN pc : \A k \in Completed(p) :
    LET n == ns[p][k]
    IN  /\ \A f \in StringFields : f \in DOMAIN n /\ n[f].kind = "str" /\ n[f].str # ""
        /\ \A f \in ListFields : f \in DOMAIN n /\ n[f].kind = "list" /\ Len(n[f].list) >= 1
        /\ \A f \in DictFields : f \in DOMAIN n /\ n[f].kind = "dict" /\ DOMAIN n[f].map # {}

FieldsNonEmptyWitness ==
  \E p \in DOMAIN pc : pc[p] = "done" /\ "templates_path" \in DOMAIN ns[p][Cur(p)]

\* C2: a load defines exactly the eleven configuration fields: none is missing
\* and no other configuration field is set.
ExactlyElevenFields ==
  \A p \in DOMAIN pc : \A k \in Completed(p) :
    /\ ConfNames(ns[p][k]) = FieldNames
    /\ Cardinality(ConfNames(ns[p][k])) = 11

ExactlyElevenFieldsWitness ==
  \E p \in DOMAIN pc : pc[p] = "done" /\ DOMAIN ns[p][Cur(p)] # ConfNames(ns[p][Cur(p)])

\* C3: a field is assigned once per load, and an assigned field keeps its value
\* in every later step of the load and after the load.
AssignedOnce ==
  \A p \in DOMAIN pc : \A k \in 1..Cur(p) :
    /\ \A f \in DOMAIN writes[p][k] : writes[p][k][f] = 1
    /\ DOMAIN writes[p][k] = DOMAIN ns[p][k]
    /\ k \in Completed(p) => \A f \in FieldNames : Count(writes[p][k], f) = 1

ValuesKept ==
  \A p \in DOMAIN pc : \A k \in 1..Cur(p) : \A f \in DOMAIN ns[p][k] :
    /\ k <= Len(ns'[p])
    /\ f \in DOMAIN ns'[p][k]
    /\ ns'[p][k][f] = ns[p][k][f]

NeverMutated == []AssignedOnce /\ [][ValuesKept]_vars

NeverMutatedWitness ==
  \E p \in DOMAIN pc :
    /\ Cur(p) = 2
    /\ pc[p] = "done"
    /\ \A f \in FieldNames : Count(writes[p][1], f) = 1 /\ Count(writes[p][2], f) = 1

\* C4: the load puts the parent of the working directory at position 0 of
\* sys.path, that entry is an existing directory, and every earlier entry is
\* still there in the same order, one position further.
ParentInsertedFirst ==
  \A p \in DOMAIN pc : \A k \in 1..Cur(p) :
    LET before == path0[p][k]
        after == PathAfter(p, k)
    IN  IF k = Cur(p) /\ pc[p] \in BeforeInsert
        THEN after = before
        ELSE /\ Len(after) = Len(before) + 1
             /\ after[1] = ParentOf(cwd[p])
             /\ after[1] \in Dirs
             /\ \A i \in 1..Len(before) : after[i + 1] = before[i]

ParentInsertedFirstWitness ==
  \E p \in DOMAIN pc :
    /\ pc[p] = "project"
    /\ Cur(p) = 1
    /\ Len(path0[p][1]) = 2
    /\ path0[p][1][1] # path0[p][1][2]
    /\ cwd[p] = <<"home", "proj", "docs">>
    /\ sys_path[p][1] = <<"home", "proj">>

\* C5: a load never reaches an error state and always runs to the loaded
\* state, for every starting search path and working directory.
NoError == \A p \in DOMAIN pc : pc[p] # "error"

ThemeOptionsBoolean ==
  \A p \in DOMAIN pc : \A k \in Completed(p) :
    LET o == ns[p][k]["html_theme_options"]
    IN  /\ o.kind = "dict"
        /\ DOMAIN o.map = {"sidebar_hide_name", "navigation_with_keys"}
        /\ \A key \in DOMAIN o.map : o.map[key] \in BOOLEAN
        /\ o.map["sidebar_hide_name"] = FALSE
        /\ o.map["navigation_with_keys"] = TRUE

ThemeOptionsBooleanWitness ==
  \E p \in DOMAIN pc :
    /\ pc[p] = "done"
    /\ Cardinality(DOMAIN ns[p][Cur(p)]["html_theme_options"].map) = 2

\* C7: exclude_patterns holds no pattern twice (the three entries _build,
\* Thumbs.db, .DS_Store) and extensions is the duplicate-free sequence of
\* sphinx.ext.autodoc alone.
PatternsSetExtensionsSequence ==
  \A p \in DOMAIN pc : \A k \in Completed(p) :
    LET excl == ns[p][k]["exclude_patterns"].list
        ext == ns[p][k]["extensions"].list
    IN  /\ NoDuplicates(excl)
        /\ Len(excl) = 3
        /\ {excl[i] : i \in 1..Len(excl)} = {"_build", "Thumbs.db", ".DS_Store"}
        /\ NoDuplicates(ext)
        /\ ext = <<"sphinx.ext.autodoc">>

PatternsSetExtensionsSequenceWitness ==
  \E p \in DOMAIN pc :
    /\ pc[p] = "done"
    /\ Len(ns[p][Cur(p)]["exclude_patterns"].list) > Len(ns[p][Cur(p)]["extensions"].list)

\* C8: two loads from different working directories and different initial
\* search paths end with the same configuration record; of what a load
\* leaves, only the entry inserted into sys.path depends on the working directory.
ConfIndependentOfEnvironment ==
  \A p, q \in DOMAIN pc :
    (pc[p] = "done" /\ pc[q] = "done") =>
      /\ Conf(ns[p][1]) = Conf(ns[q][1])
      /\ path0[p][1] = path0[q][1] => Tail(sys_path[p]) = Tail(sys_path[q])
      /\ cwd[p] = cwd[q] => Head(sys_path[p]) = Head(sys_path[q])

ConfIndependentOfEnvironmentWitness ==
  /\ pc["A"] = "done"
  /\ pc["B"] = "done"
  /\ cwd["A"] # cwd["B"]
  /\ path0["A"][1] # path0["B"][1]
  /\ Head(sys_path["A"]) # Head(sys_path["B"])

\* C9: a second load from the same working directory leaves the same
\* configuration record as the first, and sys.path then starts with two
\* copies of the parent-directory entry.
SecondLoadDuplicatesEntry ==
  \A p \in DOMAIN pc : \A k \in Completed(p) :
    k >= 2 =>
      /\ Conf(ns[p][k]) = Conf(ns[p][k - 1])
      /\ PathAfter(p, k)[1] = ParentOf(cwd[p])
      /\ PathAfter(p, k)[2] = ParentOf(cwd[p])
      /\ PathAfter(p, k) # PathAfter(p, k - 1)
      /\ Len(PathAfter(p, k)) = Len(path0[p][1]) + k

SecondLoadDuplicatesEntryWitness ==
  \E p \in DOMAIN pc :
    /\ Cur(p) = 2
    /\ pc[p] = "done"
    /\ Len(sys_path[p]) >= 2
    /\ sys_path[p][1] = sys_path[p][2]

====
